---- MODULE Spec2Model ----
(***************************************************************************)
(* tinyhci server (tools/server/main.go): the GitHub webhook handler, the  *)
(* CircleCI buildhook handler and the processBuilds worker goroutine, with *)
(* the shared `builds` map and the unbuffered channel buildsCh.            *)
(*                                                                         *)
(* Every HTTP request runs in its own goroutine, so a handler is a task    *)
(* whose statements interleave with those of the other handlers and of the *)
(* worker.  A *Build is an address in `heap`; address 0 is nil.            *)
(***************************************************************************)
EXTENDS Integers, Sequences, FiniteSets, TLC

\* ------------------------------------------------------------------ bounds
MaxHandlers == 2      \* webhook requests served at the same time
MaxEvents   == 3      \* webhook deliveries in a run
MaxBuilds   == 3      \* Build objects allocated in a run

\* ------------------------------------------------------------------ inputs
Shas        == {"abc123", "def456"}
Boards      == {"itsybitsy-m4", "arduino-nano33"}    \* targets the registry knows
TargetNames == Boards \cup {"unknown-board"}          \* check-run names GitHub may send
NoURL       == ""                                     \* zero value of Build.binaryURL
ArtifactURL == "http://x/bin.tgz"
officialRelease == "https://github.com/tinygo-org/tinygo/releases/download/v0.13.1/tinygo0.13.1.linux-amd64.tar.gz"
debugSkipBinaryInstall == TRUE

RunStatus     == {"Pending", "Passed", "Failed"}
SuiteStatus   == {"None", "Pending", "InProgress", "Failed"}

Worker   == 0
Handlers == 1..MaxHandlers
Tasks    == {Worker} \cup Handlers
Nil      == 0

VARIABLES
    builds,     \* the map builds: sha -> *Build (Nil: no entry)
    heap,       \* the Build objects allocated so far, by address
    suite,      \* the provider's check-suite status of each sha
    pc,         \* each task's position
    loc,        \* each task's locals
    todo,       \* the worker's range loop: the runs not yet visited
    crashed,    \* the process died (panic on the worker goroutine, fatal map race)
    log,        \* history: the events delivered, in arrival order
    dequeued,   \* history: the Builds the worker received, in order
    pass        \* history: what the worker did since its last receive

vars == <<builds, heap, suite, pc, loc, todo, crashed, log, dequeued, pass>>

\* ----------------------------------------------------------------- helpers
NoLoc == [kind |-> "none", sha |-> "", target |-> "", build |-> Nil, url |-> ""]

NoPass == [build |-> Nil, docker |-> "none", flashed |-> {}, tested |-> {},
           out |-> "", detail |-> ""]

\* What the external commands print: docker build's combined output (one of
\* several logs), board.flash's and board.test's output.
DockerLogs  == {"docker: no space left on device", "docker: step 3 returned a non-zero code"}
FlashOutput == "flash output"
TestOutput  == "test output"

\* The worker's record of a call's output and of the detail text it handed to
\* the reporting function; a handler keeps none.
Reported(t, out, detail) ==
    IF t = Worker THEN [pass EXCEPT !.out = out, !.detail = detail] ELSE pass

\* NewBuild: sha set, binaryURL zero, an empty runs map ("Absent": no key).
NewBuild(sha) ==
    [sha |-> sha, binaryURL |-> NoURL, runs |-> [t \in TargetNames |-> "Absent"]]

RunKeys(b) == {t \in TargetNames : heap[b].runs[t] # "Absent"}

\* GetBoard: the registry's board for a check-run name, "" (nil) when it has none.
GetBoard(name) == IF name \in Boards THEN name ELSE ""

\* failCheckRun / passCheckRun: the Run of `target` in the Build's runs map
\* becomes Failed / Passed; a target with no Run in the map gets none.
SetRunStatus(hp, b, target, st) ==
    IF hp[b].runs[target] = "Absent" THEN hp
    ELSE [hp EXCEPT ![b].runs[target] = st]

failCheckRun(hp, b, target) == SetRunStatus(hp, b, target, "Failed")
passCheckRun(hp, b, target) == SetRunStatus(hp, b, target, "Passed")

\* pendingCheckSuite / startCheckSuite / failCheckSuite
pendingCheckSuite(sha) == [suite EXCEPT ![sha] = "Pending"]
startCheckSuite(sha)   == [suite EXCEPT ![sha] = "InProgress"]
failCheckSuite(sha)    == [suite EXCEPT ![sha] = "Failed"]

\* Where a task continues after processBoardRun returns.
Return(t) == IF t = Worker THEN "range" ELSE "idle"

\* Handlers that may still allocate a Build.
Allocating == {h \in Handlers : pc[h] \in {"cs_new", "cr_lookup", "cr_insert"}}

\* A request is served by a fresh goroutine: the first free one.
CanDeliver(h) ==
    /\ ~crashed
    /\ pc[h] = "idle"
    /\ \A g \in Handlers : g < h => pc[g] # "idle"
    /\ Len(log) < MaxEvents

CanAllocate == Len(heap) + Cardinality(Allocating) < MaxBuilds

\* -------------------------------------------------------------------- Init
Init ==
    /\ builds = [s \in Shas |-> Nil]
    /\ heap = <<>>
    /\ suite = [s \in Shas |-> "None"]
    /\ pc = [t \in Tasks |-> IF t = Worker THEN "wait" ELSE "idle"]
    /\ loc = [t \in Tasks |-> NoLoc]
    /\ todo = {}
    /\ crashed = FALSE
    /\ log = <<>>
    /\ dequeued = <<>>
    /\ pass = NoPass

\* ------------------------------------------------- GitHub webhook handler
\* case *github.CheckSuiteEvent: a request arrives (CommitDiscovered).
CheckSuiteEvent(h, sha) ==
    /\ CanDeliver(h)
    /\ CanAllocate
    /\ pc' = [pc EXCEPT ![h] = "cs_new"]
    /\ loc' = [loc EXCEPT ![h] = [NoLoc EXCEPT !.kind = "CheckSuite", !.sha = sha]]
    /\ log' = Append(log, [kind |-> "CheckSuite", sha |-> sha, target |-> ""])
    /\ UNCHANGED <<builds, heap, suite, todo, crashed, dequeued, pass>>

\* build := NewBuild(sha); builds[build.sha] = build
CheckSuiteInsert(h) ==
    /\ ~crashed
    /\ pc[h] = "cs_new"
    /\ heap' = Append(heap, NewBuild(loc[h].sha))
    /\ builds' = [builds EXCEPT ![loc[h].sha] = Len(heap) + 1]
    /\ loc' = [loc EXCEPT ![h].build = Len(heap) + 1]
    /\ pc' = [pc EXCEPT ![h] = "cs_pending"]
    /\ UNCHANGED <<suite, todo, crashed, log, dequeued, pass>>

\* build.pendingCheckSuite(); the handler returns.
CheckSuitePending(h) ==
    /\ ~crashed
    /\ pc[h] = "cs_pending"
    /\ suite' = pendingCheckSuite(loc[h].sha)
    /\ pc' = [pc EXCEPT ![h] = "idle"]
    /\ loc' = [loc EXCEPT ![h] = NoLoc]
    /\ UNCHANGED <<builds, heap, todo, crashed, log, dequeued, pass>>

\* case *github.CheckRunEvent: a request arrives (RunRequested); the payload's
\* CheckRun carries the name of the target and is yet to be run (Pending).
CheckRunEvent(h, sha, target) ==
    /\ CanDeliver(h)
    /\ CanAllocate
    /\ pc' = [pc EXCEPT ![h] = "cr_lookup"]
    /\ loc' = [loc EXCEPT ![h] = [NoLoc EXCEPT !.kind = "CheckRun", !.sha = sha,
                                               !.target = target]]
    /\ log' = Append(log, [kind |-> "CheckRun", sha |-> sha, target |-> target])
    /\ UNCHANGED <<builds, heap, suite, todo, crashed, dequeued, pass>>

\* if build, ok := builds[sha]; ok { build.processBoardRun(board); return }
CheckRunLookup(h) ==
    /\ ~crashed
    /\ pc[h] = "cr_lookup"
    /\ IF builds[loc[h].sha] # Nil
       THEN /\ loc' = [loc EXCEPT ![h].build = builds[loc[h].sha]]
            /\ pc' = [pc EXCEPT ![h] = "pbr"]
       ELSE /\ pc' = [pc EXCEPT ![h] = "cr_insert"]
            /\ loc' = loc
    /\ UNCHANGED <<builds, heap, suite, todo, crashed, log, dequeued, pass>>

\* build = NewBuild(sha); build.runs[name] = event.CheckRun; builds[build.sha] = build
CheckRunInsert(h) ==
    /\ ~crashed
    /\ pc[h] = "cr_insert"
    /\ heap' = Append(heap, [NewBuild(loc[h].sha) EXCEPT !.runs[loc[h].target] = "Pending"])
    /\ builds' = [builds EXCEPT ![loc[h].sha] = Len(heap) + 1]
    /\ loc' = [loc EXCEPT ![h].build = Len(heap) + 1]
    /\ pc' = [pc EXCEPT ![h] = "send"]
    /\ UNCHANGED <<suite, todo, crashed, log, dequeued, pass>>

\* ----------------------------------------------- CircleCI buildhook handler
\* A buildhook of a successful build whose binary URL resolves (ArtifactReady);
\* any other buildhook returns before it reads the index.
BuildhookEvent(h, sha) ==
    /\ CanDeliver(h)
    /\ pc' = [pc EXCEPT ![h] = "bh_lookup"]
    /\ loc' = [loc EXCEPT ![h] = [NoLoc EXCEPT !.kind = "Buildhook", !.sha = sha,
                                               !.url = ArtifactURL]]
    /\ log' = Append(log, [kind |-> "Buildhook", sha |-> sha, target |-> ""])
    /\ UNCHANGED <<builds, heap, suite, todo, crashed, dequeued, pass>>

\* build := builds[bi.VCSRevision]   (nil when the map has no entry)
BuildhookLookup(h) ==
    /\ ~crashed
    /\ pc[h] = "bh_lookup"
    /\ loc' = [loc EXCEPT ![h].build = builds[loc[h].sha]]
    /\ pc' = [pc EXCEPT ![h] = "bh_seturl"]
    /\ UNCHANGED <<builds, heap, suite, todo, crashed, log, dequeued, pass>>

\* BuildhookSetURL storing a fresh Build for the artifact instead of updating
\* the one found: the runs recorded so far are lost.
BuildhookSetURLFreshBuild(h) ==
    /\ ~crashed
    /\ pc[h] = "bh_seturl"
    /\ IF loc[h].build = Nil
       THEN /\ pc' = [pc EXCEPT ![h] = "panicked"]
            /\ heap' = heap
       ELSE /\ heap' = [heap EXCEPT ![loc[h].build] =
                            [NewBuild(loc[h].sha) EXCEPT !.binaryURL = loc[h].url]]
            /\ pc' = [pc EXCEPT ![h] = "send"]
    /\ UNCHANGED <<builds, suite, loc, todo, crashed, log, dequeued, pass>>

\* build.binaryURL = url   (a nil build: the handler goroutine panics)
BuildhookSetURL(h) ==
    /\ ~crashed
    /\ pc[h] = "bh_seturl"
    /\ IF loc[h].build = Nil
       THEN /\ pc' = [pc EXCEPT ![h] = "panicked"]
            /\ heap' = heap
       ELSE /\ heap' = [heap EXCEPT ![loc[h].build].binaryURL = loc[h].url]
            /\ pc' = [pc EXCEPT ![h] = "send"]
    /\ UNCHANGED <<builds, suite, loc, todo, crashed, log, dequeued, pass>>

\* The panic of a handler goroutine ends that request only.
HandlerPanicked(h) ==
    /\ ~crashed
    /\ pc[h] = "panicked"
    /\ pc' = [pc EXCEPT ![h] = "idle"]
    /\ loc' = [loc EXCEPT ![h] = NoLoc]
    /\ UNCHANGED <<builds, heap, suite, todo, crashed, log, dequeued, pass>>

\* ------------------------------------------------------------ processBuilds
\* buildsCh <- build meets case build := <-builds: the channel is unbuffered,
\* so the send completes when the worker receives.
Receive(h) ==
    /\ ~crashed
    /\ pc[Worker] = "wait"
    /\ pc[h] = "send"
    /\ loc' = [loc EXCEPT ![Worker] = [NoLoc EXCEPT !.kind = "worker",
                                                    !.build = loc[h].build,
                                                    !.sha = heap[loc[h].build].sha],
                          ![h] = NoLoc]
    /\ pc' = [pc EXCEPT ![Worker] = "start", ![h] = "idle"]
    /\ dequeued' = Append(dequeued, loc[h].build)
    /\ pass' = [NoPass EXCEPT !.build = loc[h].build]
    /\ todo' = {}
    /\ UNCHANGED <<builds, heap, suite, crashed, log>>

\* build.startCheckSuite(); url := officialRelease or build.binaryURL;
\* buildDocker(url, build.sha) is called.
StartCheckSuite ==
    /\ ~crashed
    /\ pc[Worker] = "start"
    /\ suite' = startCheckSuite(loc[Worker].sha)
    /\ loc' = [loc EXCEPT ![Worker].url =
                  IF ~debugSkipBinaryInstall THEN heap[loc[Worker].build].binaryURL
                  ELSE officialRelease]
    /\ pc' = [pc EXCEPT ![Worker] = "docker"]
    /\ UNCHANGED <<builds, heap, todo, crashed, log, dequeued, pass>>

\* DockerFailed without its `continue`: the worker falls through to the range.
DockerFailedNoContinue ==
    /\ ~crashed
    /\ pc[Worker] = "docker"
    /\ suite' = failCheckSuite(loc[Worker].sha)
    /\ \E out \in DockerLogs :
          pass' = [pass EXCEPT !.docker = "fail", !.out = out,
                               !.detail = "docker build failed"]
    /\ todo' = RunKeys(loc[Worker].build)
    /\ pc' = [pc EXCEPT ![Worker] = "range"]
    /\ UNCHANGED <<builds, heap, loc, crashed, log, dequeued>>

\* buildDocker returned an error (its output is only logged):
\* build.failCheckSuite("docker build failed"); continue.
DockerFailed ==
    /\ ~crashed
    /\ pc[Worker] = "docker"
    /\ suite' = failCheckSuite(loc[Worker].sha)
    /\ \E out \in DockerLogs :
          pass' = [pass EXCEPT !.docker = "fail", !.out = out,
                               !.detail = "docker build failed"]
    /\ pc' = [pc EXCEPT ![Worker] = "wait"]
    /\ loc' = [loc EXCEPT ![Worker] = NoLoc]
    /\ UNCHANGED <<builds, heap, todo, crashed, log, dequeued>>

\* buildDocker returned nil: for _, run := range build.runs starts.
DockerBuilt ==
    /\ ~crashed
    /\ pc[Worker] = "docker"
    /\ pass' = [pass EXCEPT !.docker = "ok"]
    /\ todo' = RunKeys(loc[Worker].build)
    /\ pc' = [pc EXCEPT ![Worker] = "range"]
    /\ UNCHANGED <<builds, heap, suite, loc, crashed, log, dequeued>>

\* One iteration, in the map's order (any): board := GetBoard(run.GetName());
\* build.processBoardRun(board).
RangeNext(target) ==
    /\ ~crashed
    /\ pc[Worker] = "range"
    /\ target \in todo
    /\ todo' = todo \ {target}
    /\ loc' = [loc EXCEPT ![Worker].target = target]
    /\ pc' = [pc EXCEPT ![Worker] = "pbr"]
    /\ UNCHANGED <<builds, heap, suite, crashed, log, dequeued, pass>>

\* The range is over: back to the select.
RangeDone ==
    /\ ~crashed
    /\ pc[Worker] = "range"
    /\ todo = {}
    /\ pc' = [pc EXCEPT ![Worker] = "wait"]
    /\ loc' = [loc EXCEPT ![Worker] = NoLoc]
    /\ UNCHANGED <<builds, heap, suite, todo, crashed, log, dequeued, pass>>

\* --------------------------------------------------- Build.processBoardRun
\* board.displayname is read and board.flash(build.sha) is called; a nil board
\* panics: on a handler the request ends, on the worker the process dies.
FlashBegin(t) ==
    /\ ~crashed
    /\ pc[t] = "pbr"
    /\ IF GetBoard(loc[t].target) = ""
       THEN /\ crashed' = (t = Worker)
            /\ pc' = [pc EXCEPT ![t] = IF t = Worker THEN "pbr" ELSE "panicked"]
            /\ pass' = pass
       ELSE /\ pc' = [pc EXCEPT ![t] = "flashing"]
            /\ pass' = IF t = Worker
                       THEN [pass EXCEPT !.flashed = @ \cup {loc[t].target}]
                       ELSE pass
            /\ crashed' = crashed
    /\ UNCHANGED <<builds, heap, suite, loc, todo, log, dequeued>>

\* board.flash returned an error: failCheckRun(board.target, flashout); return.
FlashFailed(t) ==
    /\ ~crashed
    /\ pc[t] = "flashing"
    /\ heap' = failCheckRun(heap, loc[t].build, loc[t].target)
    /\ pass' = Reported(t, FlashOutput, FlashOutput)
    /\ pc' = [pc EXCEPT ![t] = Return(t)]
    /\ loc' = [loc EXCEPT ![t] = IF t = Worker THEN [loc[t] EXCEPT !.target = ""] ELSE NoLoc]
    /\ UNCHANGED <<builds, suite, todo, crashed, log, dequeued>>

\* board.flash returned nil: time.Sleep(2 * time.Second).
FlashDone(t) ==
    /\ ~crashed
    /\ pc[t] = "flashing"
    /\ pc' = [pc EXCEPT ![t] = "settling"]
    /\ UNCHANGED <<builds, heap, suite, loc, todo, crashed, log, dequeued, pass>>

\* The sleep is over: board.test() is called.
TestBegin(t) ==
    /\ ~crashed
    /\ pc[t] = "settling"
    /\ pc' = [pc EXCEPT ![t] = "testing"]
    /\ pass' = IF t = Worker
               THEN [pass EXCEPT !.tested = @ \cup {loc[t].target}]
               ELSE pass
    /\ UNCHANGED <<builds, heap, suite, loc, todo, crashed, log, dequeued>>

\* board.test returned an error: failCheckRun(board.target, out); return.
TestFailed(t) ==
    /\ ~crashed
    /\ pc[t] = "testing"
    /\ heap' = failCheckRun(heap, loc[t].build, loc[t].target)
    /\ pass' = Reported(t, TestOutput, TestOutput)
    /\ pc' = [pc EXCEPT ![t] = Return(t)]
    /\ loc' = [loc EXCEPT ![t] = IF t = Worker THEN [loc[t] EXCEPT !.target = ""] ELSE NoLoc]
    /\ UNCHANGED <<builds, suite, todo, crashed, log, dequeued>>

\* board.test returned nil: passCheckRun(board.target, out).
TestPassed(t) ==
    /\ ~crashed
    /\ pc[t] = "testing"
    /\ heap' = passCheckRun(heap, loc[t].build, loc[t].target)
    /\ pass' = Reported(t, TestOutput, TestOutput)
    /\ pc' = [pc EXCEPT ![t] = Return(t)]
    /\ loc' = [loc EXCEPT ![t] = IF t = Worker THEN [loc[t] EXCEPT !.target = ""] ELSE NoLoc]
    /\ UNCHANGED <<builds, suite, todo, crashed, log, dequeued>>

\* ------------------------------------------------------ the unguarded map
\* builds is a plain map written and read by concurrent handler goroutines.
\* Two accesses, one a write, that meet are a data race: besides the two
\* serial orders (the interleavings above) the runtime may stop the process
\* with "fatal error: concurrent map writes".
MapWriters == {h \in Handlers : pc[h] \in {"cs_new", "cr_insert"}}
MapReaders == {h \in Handlers : pc[h] \in {"cr_lookup", "bh_lookup"}}

ConcurrentMapFatal ==
    /\ ~crashed
    /\ \E h1 \in MapWriters : \E h2 \in (MapWriters \cup MapReaders) \ {h1} : TRUE
    /\ crashed' = TRUE
    /\ UNCHANGED <<builds, heap, suite, pc, loc, todo, log, dequeued, pass>>

\* -------------------------------------------------------------------- Next
Next ==
    \/ \E h \in Handlers, sha \in Shas : CheckSuiteEvent(h, sha)
    \/ \E h \in Handlers : CheckSuiteInsert(h)
    \/ \E h \in Handlers : CheckSuitePending(h)
    \/ \E h \in Handlers, sha \in Shas, target \in TargetNames : CheckRunEvent(h, sha, target)
    \/ \E h \in Handlers : CheckRunLookup(h)
    \/ \E h \in Handlers : CheckRunInsert(h)
    \/ \E h \in Handlers, sha \in Shas : BuildhookEvent(h, sha)
    \/ \E h \in Handlers : BuildhookLookup(h)
    \/ \E h \in Handlers : BuildhookSetURL(h)
    \/ \E h \in Handlers : HandlerPanicked(h)
    \/ \E h \in Handlers : Receive(h)
    \/ StartCheckSuite
    \/ DockerFailed
    \/ DockerBuilt
    \/ \E target \in TargetNames : RangeNext(target)
    \/ RangeDone
    \/ \E t \in Tasks : FlashBegin(t)
    \/ \E t \in Tasks : FlashFailed(t)
    \/ \E t \in Tasks : FlashDone(t)
    \/ \E t \in Tasks : TestBegin(t)
    \/ \E t \in Tasks : TestFailed(t)
    \/ \E t \in Tasks : TestPassed(t)
    \/ ConcurrentMapFatal

Spec == Init /\ [][Next]_vars

\* The server some time after start: the index already holds the Build that a
\* CheckSuite event for InitialSha left there (log counts the later events).
InitialSha == "abc123"

InitIndexed ==
    /\ builds = [s \in Shas |-> IF s = InitialSha THEN 1 ELSE Nil]
    /\ heap = <<NewBuild(InitialSha)>>
    /\ suite = [s \in Shas |-> IF s = InitialSha THEN "Pending" ELSE "None"]
    /\ pc = [t \in Tasks |-> IF t = Worker THEN "wait" ELSE "idle"]
    /\ loc = [t \in Tasks |-> NoLoc]
    /\ todo = {}
    /\ crashed = FALSE
    /\ log = <<>>
    /\ dequeued = <<>>
    /\ pass = NoPass

SpecIndexed == InitIndexed /\ [][Next]_vars

\* The steps of the processBuilds goroutine.
WorkerNext ==
    \/ \E h \in Handlers : Receive(h)
    \/ StartCheckSuite
    \/ DockerFailed
    \/ DockerBuilt
    \/ \E target \in TargetNames : RangeNext(target)
    \/ RangeDone
    \/ FlashBegin(Worker)
    \/ FlashFailed(Worker)
    \/ FlashDone(Worker)
    \/ TestBegin(Worker)
    \/ TestFailed(Worker)
    \/ TestPassed(Worker)

\* ============================================================ properties
InCycle(t)  == pc[t] \in {"flashing", "settling", "testing"}
Terminal(st) == st \in {"Passed", "Failed"}
Returns(h)  == pc[h] \notin {"idle", "panicked"} /\ pc'[h] = "idle"
Quiescent   == pc[Worker] = "wait" /\ \A h \in Handlers : pc[h] = "idle"

\* C1: at any instant at most one task (the worker or a webhook handler) is
\* inside a flash / settle / test cycle.
C1_OneCycleAtATime == Cardinality({t \in Tasks : InCycle(t)}) <= 1

\* C2: whenever a handler has finished reducing an event for a sha (a
\* CheckSuite, CheckRun or Buildhook event, in any order), the index holds a
\* Build for that sha.
C2_OneBuildAfterEachEvent ==
    [][\A h \in Handlers :
          (pc[h] # "idle" /\ pc'[h] = "idle") => builds'[loc[h].sha] # Nil]_vars

\* C3: lookup-then-insert is atomic: a handler that found no Build for its sha
\* and is about to insert one still sees no Build for that sha in the index,
\* and a Build a handler is handing to the queue is the one the index holds.
C3_LookupInsertAtomic ==
    \A h \in Handlers :
        /\ pc[h] = "cr_insert" => builds[loc[h].sha] = Nil
        /\ pc[h] = "send" => builds[loc[h].sha] = loc[h].build

\* C4: once the index holds a Build for a sha, it holds that same Build from
\* then on (a later CommitDiscovered returns it and replaces nothing).
C4_SameBuildInstance ==
    [][\A s \in Shas : builds[s] # Nil => builds'[s] = builds[s]]_vars

\* C5: a RunRequested handler enqueues its Build or starts a flash only when
\* the Build has a known binaryURL and has been through the worker before.
C5_RunRequestedNeedsArtifact ==
    \A h \in Handlers :
        (loc[h].kind = "CheckRun" /\ (pc[h] = "send" \/ InCycle(h)))
            => /\ heap[loc[h].build].binaryURL # NoURL
               /\ \E i \in 1..Len(dequeued) : dequeued[i] = loc[h].build

\* C6: when a RunRequested(sha, target) handler returns, the Build the index
\* holds for sha has a Run keyed by target, at status Pending.
C6_RunPendingAfterRequest ==
    [][\A h \in Handlers :
          (loc[h].kind = "CheckRun" /\ Returns(h))
              => /\ builds'[loc[h].sha] # Nil
                 /\ heap'[builds'[loc[h].sha]].runs[loc[h].target] = "Pending"]_vars

\* C7: a RunRequested that finds the Run of its target Passed or Failed resets
\* that Run to Pending and goes on to enqueue the Build.
C7_RerunResetsAndEnqueues ==
    [][\A h \in Handlers :
          (/\ pc[h] = "cr_lookup" /\ pc'[h] # "cr_lookup"
           /\ builds[loc[h].sha] # Nil
           /\ Terminal(heap[builds[loc[h].sha]].runs[loc[h].target]))
              => /\ heap'[builds[loc[h].sha]].runs[loc[h].target] = "Pending"
                 /\ pc'[h] = "send"]_vars

\* C8 (scenario D): two RunRequested for different boards of one sha arrive
\* first.  Until an ArtifactReady arrives nothing is enqueued, received or
\* flashed; once ArtifactReady has arrived and all is at rest, the worker has
\* received the Build once and flashed both boards in that pass.
ScenarioD ==
    /\ Len(log) >= 2
    /\ log[1].kind = "CheckRun" /\ log[2].kind = "CheckRun"
    /\ log[1].sha = log[2].sha
    /\ log[1].target # log[2].target
    /\ {log[1].target, log[2].target} \subseteq Boards

C8_ScenarioD ==
    /\ (ScenarioD /\ Len(log) = 2)
          => /\ dequeued = <<>>
             /\ \A t \in Tasks : pc[t] # "send" /\ ~InCycle(t)
    /\ (ScenarioD /\ Len(log) = 3 /\ log[3] = [kind |-> "Buildhook", sha |-> log[1].sha, target |-> ""]
          /\ Quiescent /\ ~crashed)
          => /\ Len(dequeued) = 1
             /\ pass.flashed = {log[1].target, log[2].target}

\* C9 (scenario A): CommitDiscovered(sha), RunRequested(sha, board),
\* ArtifactReady(sha) arrive in that order.  When every call has returned and
\* all is at rest, the Build of sha has exactly one Run, for that board, at
\* Passed or Failed, and the check-suite of sha is terminal.
ScenarioA ==
    /\ Len(log) = 3
    /\ log[1].kind = "CheckSuite" /\ log[2].kind = "CheckRun" /\ log[3].kind = "Buildhook"
    /\ log[2].sha = log[1].sha /\ log[3].sha = log[1].sha
    /\ log[2].target \in Boards

C9_ScenarioA ==
    (ScenarioA /\ Quiescent /\ ~crashed)
        => /\ builds[log[1].sha] # Nil
           /\ RunKeys(builds[log[1].sha]) = {log[2].target}
           /\ Terminal(heap[builds[log[1].sha]].runs[log[2].target])
           /\ suite[log[1].sha] \in {"Passed", "Failed"}

\* C10 (scenario B): when buildDocker fails for the Build the worker received,
\* the step reports the check-suite Failed, changes no Run, puts no task on
\* the channel, and the worker is back at its select having called neither
\* flash nor test in that pass; with that Build's RunRequested the only event
\* delivered, its Run is still Pending.
C10_DockerFailureSkipsRuns ==
    /\ [](pass.docker = "fail"
            => pass.flashed = {} /\ pass.tested = {} /\ pc[Worker] = "wait")
    /\ []((Len(log) = 1 /\ log[1].kind = "CheckRun" /\ pass.docker = "fail")
            => heap[pass.build].runs[log[1].target] = "Pending")
    /\ [][(pc[Worker] = "docker" /\ pass'.docker = "fail")
            => /\ suite'[loc[Worker].sha] = "Failed"
               /\ heap' = heap
               /\ dequeued' = dequeued
               /\ \A h \in Handlers : pc'[h] = pc[h]]_vars

C10_Witness ==
    /\ pass.docker = "fail"
    /\ \E t \in Boards : heap[pass.build].runs[t] = "Pending"
    /\ suite[heap[pass.build].sha] = "Failed"

\* The boards requested for a sha by the CheckRun events delivered so far.
Requested(sha) ==
    {log[i].target : i \in {k \in 1..Len(log) : log[k].kind = "CheckRun" /\ log[k].sha = sha}}
        \cap Boards

\* C11 (scenario C): a flash failure in the worker's pass makes that Run Failed
\* with no test called for it; every board requested for the sha (its request
\* reduced before the worker took the Build) has a Run in the Build, and a
\* pass that ends has flashed every Run of the Build.
C11_FlashFailureIsolated ==
    /\ [][(pc[Worker] = "flashing" /\ pc'[Worker] = "range")
            => /\ heap'[loc[Worker].build].runs[loc[Worker].target] = "Failed"
               /\ loc[Worker].target \notin pass'.tested]_vars
    /\ [][(pc[Worker] = "wait" /\ pc'[Worker] = "start"
              /\ \A h \in Handlers : pc'[h] = "idle")
            => Requested(loc'[Worker].sha) \subseteq RunKeys(loc'[Worker].build)]_vars
    /\ []((pc[Worker] = "wait" /\ pass.docker = "ok" /\ ~crashed)
            => RunKeys(pass.build) \subseteq pass.flashed)

\* C12: a Buildhook handler changes the runs of no Build, however often the
\* same ArtifactReady is delivered, and the worker takes a Build only at its
\* select, with the pass before it (and its docker build) over.
C12_ArtifactReadyTwice ==
    /\ [][\A h \in Handlers :
            (loc[h].kind = "Buildhook" /\ pc'[h] # pc[h])
                => /\ Len(heap') = Len(heap)
                   /\ \A b \in 1..Len(heap) : heap'[b].runs = heap[b].runs]_vars
    /\ [][Len(dequeued') > Len(dequeued)
            => pc[Worker] = "wait" /\ todo = {} /\ pc'[Worker] = "start"]_vars

\* The same ArtifactReady delivered twice, the second waiting at the channel
\* while the worker runs the docker build of the first, for a Build with a Run.
C12_Witness ==
    \E h \in Handlers :
        /\ loc[h].kind = "Buildhook" /\ pc[h] = "send"
        /\ pc[Worker] = "docker" /\ loc[Worker].build = loc[h].build
        /\ RunKeys(loc[h].build) # {}
        /\ Len(dequeued) >= 2
        /\ \E i, j \in 1..Len(log) :
              i < j /\ log[i] = log[j] /\ log[i].kind = "Buildhook"
                    /\ log[i].sha = loc[h].sha

\* C13: a task that enters processBoardRun for a target the registry does not
\* know drops that run: no panic, no crash, and the task moves on.
C13_UnknownBoardDropped ==
    [][\A t \in Tasks :
          (pc[t] = "pbr" /\ GetBoard(loc[t].target) = "" /\ ~crashed
              /\ (pc'[t] # "pbr" \/ crashed'))
            => ~crashed' /\ pc'[t] = Return(t)]_vars

\* C14: the detail the worker publishes equals the output of the call that
\* failed or finished: docker build's log for a failed check-suite, the flash
\* or test output for a check run.
C14_DetailVerbatim == pass.detail = pass.out

\* C15: a handler never waits at the channel while the worker is inside a
\* processing cycle.
C15_EnqueueNonBlocking ==
    \A h \in Handlers : pc[h] = "send" => pc[Worker] = "wait"

\* C16: with ArtifactReady(InitialSha) delivered before ArtifactReady of
\* another sha (and no CheckRun event to enqueue anything else), the worker
\* takes the other sha's Build only after a Build of InitialSha.
C16_ArrivalOrderIsProcessingOrder ==
    \A i, j \in 1..Len(log) :
        (/\ i < j
         /\ log[i].kind = "Buildhook" /\ log[i].sha = InitialSha
         /\ log[j].kind = "Buildhook" /\ log[j].sha # InitialSha
         /\ \A k \in 1..Len(log) : log[k].kind # "CheckRun")
          => \A p \in 1..Len(dequeued) :
                heap[dequeued[p]].sha = log[j].sha
                    => \E q \in 1..(p - 1) : heap[dequeued[q]].sha = InitialSha

\* C17: the docker build of a Build whose binaryURL an ArtifactReady has set
\* runs with that binaryURL, after the check-suite is in progress and before
\* any flash of the pass.
C17_BuilderGetsBinaryURL ==
    (pc[Worker] = "docker" /\ heap[loc[Worker].build].binaryURL # NoURL)
        => /\ loc[Worker].url = heap[loc[Worker].build].binaryURL
           /\ pass.flashed = {}

\* C18: a Run's status changes only along Pending -> Queued -> Flashing ->
\* Testing -> Passed | Failed, Flashing -> Failed, or from Passed / Failed back
\* to Pending in a step of a CheckRun handler.
Forward(a, c) ==
    \/ a = "Pending"  /\ c \in {"Queued", "Flashing"}
    \/ a = "Queued"   /\ c = "Flashing"
    \/ a = "Flashing" /\ c \in {"Testing", "Failed"}
    \/ a = "Testing"  /\ c \in {"Passed", "Failed"}

C18_StatusMovesForward ==
    [][\A b \in 1..Len(heap) : \A t \in TargetNames :
          \/ heap'[b].runs[t] = heap[b].runs[t]
          \/ Forward(heap[b].runs[t], heap'[b].runs[t])
          \/ /\ Terminal(heap[b].runs[t]) /\ heap'[b].runs[t] = "Pending"
             /\ \E h \in Handlers : loc[h].kind = "CheckRun" /\ pc'[h] # pc[h]]_vars

\* C19: a Buildhook handler for a sha that no CheckSuite or CheckRun event has
\* mentioned does not fault, and the worker never holds a nil Build.
C19_BuildhookWithoutBuild ==
    /\ \A h \in Handlers :
          (/\ loc[h].kind = "Buildhook"
           /\ \A k \in 1..Len(log) : log[k].sha = loc[h].sha => log[k].kind = "Buildhook")
              => pc[h] # "panicked"
    /\ pc[Worker] # "wait" => loc[Worker].build # Nil

\* C20: while the worker is inside a pass or a handler waits at the channel,
\* the worker has a step to take (it gets back to its select and receives).
C20_NoDeadlock ==
    (pc[Worker] # "wait" \/ \E h \in Handlers : pc[h] = "send") => ENABLED WorkerNext

====
